---- MODULE Spec2Model ----
(***************************************************************************)
(* Barcode scanner (src/app.py): the session state of the Streamlit page,  *)
(* the allow-list loader, the video callback BarcodeProcessor.recv and the *)
(* page script main.                                                       *)
(*                                                                         *)
(* Strings that the program inspects (cells of an uploaded file, decoded   *)
(* barcodes) are sequences of one-character strings. Time is counted in    *)
(* whole seconds.                                                          *)
(*                                                                         *)
(* Spec     runs each handler (one recv call, one run of main) as a whole. *)
(* SpecConc runs recv on the video-callback thread and main on the script  *)
(*          thread, interleaved statement by statement.                    *)
(* SpecFn   calls the loader, the export and the statistics each once, on  *)
(*          an argument drawn from a bounded set.                          *)
(***************************************************************************)
EXTENDS Integers, Sequences, FiniteSets, TLC

(***************************************************************************)
(* Bounds of the model                                                     *)
(***************************************************************************)
\* seconds of wall-clock time the model lets pass
MaxTicks == 4
\* barcodes pyzbar decodes in one frame
MaxFrameLen == 2
\* the same two bounds for the interleaved specification
MaxConcTicks == 3
MaxConcFrameLen == 1
\* rows of an uploaded file when the loader is called on its own
MaxRows == 4
\* the counts the statistics are computed from, when computed on their own
MaxCount == 3

(***************************************************************************)
(* Values                                                                  *)
(***************************************************************************)
\* Python's None for last_scanned (no decoded barcode is this sequence:
\* its only element is not a character)
None == <<"None">>

A == <<"A">>
B == <<"B">>
\* the barcodes the camera can show: B is in every allow-list that loads,
\* A in some
Barcodes == {A, B}

RECURSIVE SeqsUpTo(_, _)
SeqsUpTo(S, n) ==
    IF n = 0 THEN {<<>>}
    ELSE LET shorter == SeqsUpTo(S, n - 1)
         IN  shorter \cup {Append(s, x) : s \in shorter, x \in S}

\* the decoded barcodes of one frame, in detection order
Frames == SeqsUpTo(Barcodes, MaxFrameLen)
ConcFrames == SeqsUpTo(Barcodes, MaxConcFrameLen)

(***************************************************************************)
(* Uploaded files. ext is the extension of uploaded_file.name, readable    *)
(* is FALSE when pandas cannot parse the content, rows is the first column *)
(* of the sheet, top row first; the empty sequence is an empty cell.       *)
(***************************************************************************)
Header == <<"H">>
FileAB    == [ext |-> "csv",  readable |-> TRUE,  rows |-> <<Header, A, <<" ", "B", " ">>, <<>>, A>>]
FileB     == [ext |-> "xlsx", readable |-> TRUE,  rows |-> <<Header, B>>]
FileEmpty == [ext |-> "csv",  readable |-> TRUE,  rows |-> <<>>]
FileHead  == [ext |-> "xls",  readable |-> TRUE,  rows |-> <<Header>>]
FileBlank == [ext |-> "csv",  readable |-> TRUE,  rows |-> <<Header, <<" ">>>>]
FileTxt   == [ext |-> "txt",  readable |-> TRUE,  rows |-> <<Header, A>>]
FileBad   == [ext |-> "xlsx", readable |-> FALSE, rows |-> <<Header, A>>]
Files == {FileAB, FileB, FileEmpty, FileHead, FileBlank, FileTxt, FileBad}

\* Cells of the files the loader is called on by itself: text (pandas reads
\* none of them as a number or as a missing-value marker), with and without
\* surrounding blanks, in both letter cases, blank, and empty.
LoadCells == {<<>>, <<" ">>, A, B, <<"a">>, <<" ", "A", " ">>}

HoldsText(cell) == \E i \in 1..Len(cell) : cell[i] # " "

\* sheets of one column whose top row holds text, as CSV and as Excel
LoadSheets ==
    {rows \in SeqsUpTo(LoadCells, MaxRows) : rows # <<>> /\ HoldsText(rows[1])}

LoadFiles ==
    Files \cup {[ext |-> e, readable |-> TRUE, rows |-> rows] :
                   e \in {"csv", "xlsx"}, rows \in LoadSheets}

\* the value of the file_uploader widget: no file, or one file
UploadChoices == {<<>>} \cup {<<f>> : f \in Files}
ConcUploadChoices == {<<>>, <<FileAB>>, <<FileB>>}

(***************************************************************************)
(* load_barcodes_from_file                                                 *)
(***************************************************************************)
IsSpace(c) == c \in {" ", "\t", "\n"}

RECURSIVE LStrip(_)
LStrip(s) == IF s # <<>> /\ IsSpace(Head(s)) THEN LStrip(Tail(s)) ELSE s

RECURSIVE RStrip(_)
RStrip(s) ==
    IF s # <<>> /\ IsSpace(s[Len(s)]) THEN RStrip(SubSeq(s, 1, Len(s) - 1)) ELSE s

\* str.upper on the letters the cells use
Upper(s) == [i \in 1..Len(s) |-> IF s[i] = "a" THEN "A" ELSE IF s[i] = "b" THEN "B" ELSE s[i]]

Strip_Upper(s) == Upper(RStrip(LStrip(s)))

\* str.strip
Strip(s) == RStrip(LStrip(s))

\* pd.read_csv / pd.read_excel: the top row becomes the column header, the
\* rest are the data rows; a file without any row cannot be read as CSV
ReadFails(f) ==
    \/ ~ f.readable
    \/ f.ext = "csv" /\ f.rows = <<>>

DataRows_WithHeader(f) == f.rows

DataRows(f) == IF f.rows = <<>> THEN <<>> ELSE Tail(f.rows)

FirstColumnSet_NoStrip(rows) ==
    {rows[i] : i \in {j \in 1..Len(rows) : rows[j] # <<>>}} \ {<<>>}

\* df.iloc[:, 0].dropna().astype(str).str.strip() collected into a set,
\* with '' discarded
FirstColumnSet(rows) ==
    {Strip(rows[i]) : i \in {j \in 1..Len(rows) : rows[j] # <<>>}} \ {<<>>}

\* the returned set, and whether st.error was called
load_barcodes_from_file(f) ==
    IF f.ext \notin {"csv", "xlsx", "xls"}
    THEN [barcodes |-> {}, error |-> TRUE]
    ELSE IF ReadFails(f)
    THEN [barcodes |-> {}, error |-> TRUE]
    ELSE IF DataRows(f) = <<>>
    THEN [barcodes |-> {}, error |-> TRUE]
    ELSE [barcodes |-> FirstColumnSet(DataRows(f)), error |-> FALSE]

(***************************************************************************)
(* State                                                                   *)
(***************************************************************************)
VARIABLES
    valid_barcodes,     \* st.session_state.valid_barcodes: the allow-list
    scanned_barcodes,   \* st.session_state.scanned_barcodes: the scan records
    last_scanned,       \* st.session_state.last_scanned
    scan_status,        \* st.session_state.scan_status
    file_uploaded,      \* st.session_state.file_uploaded
    started,            \* webrtc_streamer has created the BarcodeProcessor
    last_scan_time,     \* BarcodeProcessor.last_scan_time
    clock,              \* time.time() and datetime.now()
    load_notice,        \* what the sidebar said about the upload in the latest run
    status_panel,       \* what the status panel displayed in the latest run
    status_of,          \* history: the barcode whose classification wrote scan_status
    status_shown,       \* history: the value in scan_status has been displayed
    class_log,          \* history: the latest two calls of Recv that classified
    cleared,            \* history: barcodes whose record Clear Scan History removed
                        \* and that Recv has not classified since
    revalidated,        \* history: barcodes Recv recorded again since that clear
    rx_pc, rx_rest, rx_time,    \* video-callback thread: place in recv, barcodes
                                \* left in the frame, current_time
    rx_branch,                  \* the branch taken for the barcode at hand
    ui_pc, ui_clear,            \* script thread: place in main, the button's value
    fn, fn_in, fn_out           \* one call of a function of the page on its own:
                                \* which function and whether it has returned,
                                \* its argument, its result

session == <<valid_barcodes, scanned_barcodes, last_scanned, scan_status, file_uploaded>>
history == <<status_of, status_shown, class_log, cleared, revalidated>>
rx_vars == <<rx_pc, rx_rest, rx_time, rx_branch>>
ui_vars == <<ui_pc, ui_clear>>
fn_vars == <<fn, fn_in, fn_out>>
vars == <<session, started, last_scan_time, clock, load_notice, status_panel,
          history, rx_vars, ui_vars, fn_vars>>

scan_cooldown == 2

Statuses == {"success", "duplicate", "invalid"}

\* an empty status placeholder
NoPanel == [status |-> "None", code |-> None, of |-> None]

\* initialize_session_state, BarcodeProcessor.__init__; time.time() is far
\* beyond the cooldown when the page opens
Init ==
    /\ valid_barcodes = {}
    /\ scanned_barcodes = <<>>
    /\ last_scanned = None
    /\ scan_status = "None"
    /\ file_uploaded = FALSE
    /\ started = FALSE
    /\ last_scan_time = 0
    /\ clock = scan_cooldown + 1
    /\ load_notice = "none"
    /\ status_panel = NoPanel
    /\ status_of = None
    /\ status_shown = FALSE
    /\ class_log = <<>>
    /\ cleared = {}
    /\ revalidated = {}
    /\ rx_pc = "idle"
    /\ rx_rest = <<>>
    /\ rx_time = 0
    /\ rx_branch = "None"
    /\ ui_pc = "idle"
    /\ ui_clear = FALSE
    /\ fn = "none"
    /\ fn_in = <<>>
    /\ fn_out = <<>>

\* a second of wall-clock time passes
Tick ==
    /\ clock < scan_cooldown + 1 + MaxTicks
    /\ clock' = clock + 1
    /\ UNCHANGED <<session, started, last_scan_time, load_notice, status_panel,
                   history, rx_vars, ui_vars>>
    /\ UNCHANGED fn_vars

(***************************************************************************)
(* BarcodeProcessor.recv                                                   *)
(***************************************************************************)
ScannedIds(scanned) == {scanned[i].barcode : i \in 1..Len(scanned)}

GateOpen_AtCooldown(current_time, last) == current_time - last >= scan_cooldown

GateOpen_Always(current_time, last) == TRUE

\* the cooldown gate
GateOpen(current_time, last) == current_time - last > scan_cooldown

IsNewValid_NoDedup(barcode_data, valid, scanned) == barcode_data \in valid

\* the condition of the if: valid and new
IsNewValid(barcode_data, valid, scanned) ==
    barcode_data \in valid /\ barcode_data \notin ScannedIds(scanned)

\* the condition of the elif: already scanned
IsAlreadyScanned(barcode_data, valid) == barcode_data \in valid

ScanRecord(barcode_data, now) ==
    [barcode |-> barcode_data, timestamp |-> now, status |-> "Valid"]

Branch_HistoryFirst(barcode_data, valid, scanned) ==
    IF IsNewValid(barcode_data, valid, scanned) THEN "success"
    ELSE IF barcode_data \in ScannedIds(scanned) THEN "duplicate"
    ELSE "invalid"

\* the branch the if / elif / else takes
Branch(barcode_data, valid, scanned) ==
    IF IsNewValid(barcode_data, valid, scanned) THEN "success"
    ELSE IF IsAlreadyScanned(barcode_data, valid) THEN "duplicate"
    ELSE "invalid"

AfterBranch_AppendDuplicate(branch, barcode_data, now, scanned) ==
    IF branch \in {"success", "duplicate"}
    THEN Append(scanned, ScanRecord(barcode_data, now))
    ELSE scanned

AfterBranch_Prepend(branch, barcode_data, now, scanned) ==
    IF branch = "success" THEN <<ScanRecord(barcode_data, now)>> \o scanned
    ELSE scanned

\* the list after the body of the branch
AfterBranch(branch, barcode_data, now, scanned) ==
    IF branch = "success" THEN Append(scanned, ScanRecord(barcode_data, now))
    ELSE scanned

\* last_scan_time after the body of the branch
TimeAfterBranch(branch, current_time, last) == current_time

\* one iteration of the for loop; st holds what the loop writes
ClassifyBarcode(barcode_data, current_time, now, valid, st) ==
    LET branch == Branch(barcode_data, valid, st.scanned)
    IN  [scanned |-> AfterBranch(branch, barcode_data, now, st.scanned),
         status  |-> branch,
         last    |-> barcode_data,
         time    |-> TimeAfterBranch(branch, current_time, st.time),
         shown   |-> FALSE,
         cleared |-> st.cleared \ {barcode_data},
         again   |-> IF barcode_data \in st.cleared /\ branch = "success"
                     THEN st.again \cup {barcode_data} ELSE st.again]

ClassifyAll_FirstOnly(detected, current_time, now, valid, st) ==
    IF detected = <<>> THEN st
    ELSE ClassifyBarcode(Head(detected), current_time, now, valid, st)

\* the for loop over the barcodes of the frame
RECURSIVE ClassifyAll(_, _, _, _, _)
ClassifyAll(detected, current_time, now, valid, st) ==
    IF detected = <<>> THEN st
    ELSE ClassifyAll(Tail(detected), current_time, now, valid,
                     ClassifyBarcode(Head(detected), current_time, now, valid, st))

\* the latest two calls that classified, with one more
Logged(log, current_time, n) ==
    LET all == Append(log, [time |-> current_time, n |-> n])
    IN  IF Len(all) > 2 THEN Tail(all) ELSE all

\* one call of recv on a frame in which pyzbar decodes `detected`
Recv(detected) ==
    /\ started
    /\ rx_pc = "idle"
    /\ LET current_time == clock
           st0 == [scanned |-> scanned_barcodes, status |-> scan_status,
                   last |-> last_scanned, time |-> last_scan_time,
                   shown |-> status_shown, cleared |-> cleared,
                   again |-> revalidated]
           st  == ClassifyAll(detected, current_time, clock, valid_barcodes, st0)
       IN  IF GateOpen(current_time, last_scan_time) /\ detected # <<>>
           THEN /\ scanned_barcodes' = st.scanned
                /\ scan_status' = st.status
                /\ last_scanned' = st.last
                /\ last_scan_time' = st.time
                /\ status_of' = st.last
                /\ status_shown' = st.shown
                /\ class_log' = Logged(class_log, current_time, Len(detected))
                /\ cleared' = st.cleared
                /\ revalidated' = st.again
           ELSE UNCHANGED <<scanned_barcodes, scan_status, last_scanned,
                            last_scan_time, history>>
    /\ UNCHANGED <<valid_barcodes, file_uploaded, started, clock, load_notice,
                   status_panel, rx_vars, ui_vars>>
    /\ UNCHANGED fn_vars

(***************************************************************************)
(* main                                                                    *)
(***************************************************************************)
UploadReplaces_Unguarded(choice, loaded) == choice # <<>>

\* the sidebar's upload block assigns the loaded set
UploadReplaces(choice, loaded) == choice # <<>> /\ loaded # {}

\* what load_barcodes_from_file gives for each file
LoadedFrom == [f \in Files |-> load_barcodes_from_file(f)]

Loaded(choice) ==
    IF choice = <<>> THEN [barcodes |-> {}, error |-> FALSE]
    ELSE LoadedFrom[choice[1]]

AllowListAfterUpload_Merged(choice, valid) ==
    IF UploadReplaces(choice, Loaded(choice).barcodes)
    THEN valid \cup Loaded(choice).barcodes ELSE valid

AllowListAfterUpload(choice, valid) ==
    IF UploadReplaces(choice, Loaded(choice).barcodes)
    THEN Loaded(choice).barcodes ELSE valid

FlagAfterUpload_OnAnyFile(choice, flag) == IF choice # <<>> THEN TRUE ELSE flag

FlagAfterUpload(choice, flag) ==
    IF UploadReplaces(choice, Loaded(choice).barcodes) THEN TRUE ELSE flag

NoticeAfterUpload(choice) ==
    IF Loaded(choice).error THEN "error"
    ELSE IF UploadReplaces(choice, Loaded(choice).barcodes) THEN "loaded"
    ELSE "none"

\* the Clear Scan History button
HistoryAfterClear_Kept(clicked, scanned) == scanned

HistoryAfterClear(clicked, scanned) == IF clicked THEN <<>> ELSE scanned

StatusAfterClear(clicked, status) == IF clicked THEN "None" ELSE status

LastAfterClear_Kept(clicked, last) == last

LastAfterClear(clicked, last) == IF clicked THEN None ELSE last

StreamerStarts_Always(flag) == TRUE

\* the camera column creates the streamer, and with it the processor
StreamerStarts(flag) == flag

\* the status panel: one of the three branches displays, then resets
PanelDisplays(status) == status \in Statuses

PanelOf(status, code, of) ==
    IF PanelDisplays(status) THEN [status |-> status, code |-> code, of |-> of]
    ELSE NoPanel

StatusAfterPanel_NoReset(status) == status

StatusAfterPanel(status) == IF PanelDisplays(status) THEN "None" ELSE status

\* one run of the script: uploaded_file is `choice`, the Clear Scan History
\* button returns `clicked`
Main(choice, clicked) ==
    /\ ui_pc = "idle"
    /\ rx_pc = "idle"
    /\ LET status1 == StatusAfterClear(clicked, scan_status)
           last1   == LastAfterClear(clicked, last_scanned)
           of1     == IF clicked THEN None ELSE status_of
           flag1   == FlagAfterUpload(choice, file_uploaded)
       IN  /\ valid_barcodes' = AllowListAfterUpload(choice, valid_barcodes)
           /\ file_uploaded' = flag1
           /\ load_notice' = NoticeAfterUpload(choice)
           /\ scanned_barcodes' = HistoryAfterClear(clicked, scanned_barcodes)
           /\ last_scanned' = last1
           /\ started' = (started \/ StreamerStarts(flag1))
           /\ status_panel' = PanelOf(status1, last1, of1)
           /\ scan_status' = StatusAfterPanel(status1)
           /\ status_of' = IF StatusAfterPanel(status1) = "None" THEN None ELSE of1
           /\ status_shown' = (PanelDisplays(status1) /\ StatusAfterPanel(status1) # "None")
           /\ cleared' = IF clicked THEN cleared \cup ScannedIds(scanned_barcodes)
                         ELSE cleared
           /\ revalidated' = IF clicked THEN {} ELSE revalidated
    /\ UNCHANGED <<last_scan_time, clock, class_log, rx_vars, ui_vars>>
    /\ UNCHANGED fn_vars

(***************************************************************************)
(* main: export and statistics                                             *)
(***************************************************************************)
\* the keys of a scan record, in the order the dict literal of recv gives them
RecordKeys == <<"barcode", "timestamp", "status">>

\* pd.DataFrame(scanned_barcodes).to_csv(index=False): the header line, then
\* one line per record; a line is the sequence of its comma-separated fields
ExportCsv(scanned) ==
    <<RecordKeys>> \o
    [i \in 1..Len(scanned) |-> [k \in 1..Len(RecordKeys) |-> scanned[i][RecordKeys[k]]]]

\* the histories the export button can be clicked on: not empty, one record
\* per barcode, timestamps in the order of appending
ExportHistories ==
    {h \in SeqsUpTo([barcode : Barcodes,
                     timestamp : (scan_cooldown + 1)..(scan_cooldown + 2),
                     status : {"Valid"}], Cardinality(Barcodes)) :
        /\ h # <<>>
        /\ \A i, j \in 1..Len(h) :
               i < j => h[i].barcode # h[j].barcode /\ h[i].timestamp <= h[j].timestamp}

\* a / b of Python: a ratio, or ZeroDivisionError
Divide(a, b) ==
    IF b = 0 THEN [fault |-> TRUE, num |-> 0, den |-> 1]
    ELSE [fault |-> FALSE, num |-> a, den |-> b]

Times(q, k) == [q EXCEPT !.num = @ * k]

Zero == [fault |-> FALSE, num |-> 0, den |-> 1]

ProgressMetric_Unguarded(total_scanned, total_valid) ==
    Times(Divide(total_scanned, total_valid), 100)

\* progress = (total_scanned / total_valid) * 100 if total_valid > 0 else 0
ProgressMetric(total_scanned, total_valid) ==
    IF total_valid > 0 THEN Times(Divide(total_scanned, total_valid), 100) ELSE Zero

\* completion = (len(scanned) / len(valid)) * 100 if valid_barcodes else 0
Completion(total_scanned, total_valid) ==
    IF total_valid # 0 THEN Times(Divide(total_scanned, total_valid), 100) ELSE Zero

\* remaining = len(valid_barcodes) - len(scanned_barcodes)
Remaining(total_scanned, total_valid) == total_valid - total_scanned

\* len(scanned_barcodes) and len(valid_barcodes)
StatisticsCounts == [total_scanned : 0..MaxCount, total_valid : 0..MaxCount]

(***************************************************************************)
(* Each handler as a whole                                                 *)
(***************************************************************************)
Next ==
    \/ Tick
    \/ \E detected \in Frames : Recv(detected)
    \/ \E choice \in UploadChoices, clicked \in BOOLEAN : Main(choice, clicked)

Spec == Init /\ [][Next]_vars

(***************************************************************************)
(* recv on the video-callback thread, statement by statement               *)
(***************************************************************************)
\* current_time = time.time(), the gate, detect_barcodes
RecvEnter(detected) ==
    /\ started
    /\ rx_pc = "idle"
    /\ IF GateOpen(clock, last_scan_time)
       THEN /\ rx_time' = clock
            /\ rx_rest' = detected
            /\ rx_pc' = "loop"
       ELSE UNCHANGED <<rx_rest, rx_pc, rx_time>>
    /\ UNCHANGED <<session, started, last_scan_time, clock, load_notice, status_panel,
                   history, rx_branch, ui_vars>>
    /\ UNCHANGED fn_vars

\* the condition of the if, for the next barcode of the frame
RecvIf ==
    /\ rx_pc = "loop"
    /\ rx_rest # <<>>
    /\ IF IsNewValid(Head(rx_rest), valid_barcodes, scanned_barcodes)
       THEN rx_pc' = "append" /\ rx_branch' = "success"
       ELSE rx_pc' = "elif" /\ UNCHANGED rx_branch
    /\ UNCHANGED <<session, started, last_scan_time, clock, load_notice, status_panel,
                   history, rx_rest, rx_time, ui_vars>>
    /\ UNCHANGED fn_vars

\* scanned_barcodes.append(...)
RecvAppend ==
    /\ rx_pc = "append"
    /\ scanned_barcodes' = AfterBranch(rx_branch, Head(rx_rest), clock, scanned_barcodes)
    /\ rx_pc' = "status"
    /\ UNCHANGED <<valid_barcodes, last_scanned, scan_status, file_uploaded, started,
                   last_scan_time, clock, load_notice, status_panel, history,
                   rx_rest, rx_time, rx_branch, ui_vars>>
    /\ UNCHANGED fn_vars

\* the condition of the elif
RecvElif ==
    /\ rx_pc = "elif"
    /\ rx_branch' = IF IsAlreadyScanned(Head(rx_rest), valid_barcodes)
                    THEN "duplicate" ELSE "invalid"
    /\ rx_pc' = "status"
    /\ UNCHANGED <<session, started, last_scan_time, clock, load_notice, status_panel,
                   history, rx_rest, rx_time, ui_vars>>
    /\ UNCHANGED fn_vars

\* st.session_state.scan_status = ...
RecvSetStatus ==
    /\ rx_pc = "status"
    /\ scan_status' = rx_branch
    /\ status_of' = Head(rx_rest)
    /\ status_shown' = FALSE
    /\ rx_pc' = "last"
    /\ UNCHANGED <<valid_barcodes, scanned_barcodes, last_scanned, file_uploaded,
                   started, last_scan_time, clock, load_notice, status_panel,
                   class_log, cleared, revalidated, rx_rest, rx_time, rx_branch, ui_vars>>
    /\ UNCHANGED fn_vars

\* st.session_state.last_scanned = barcode_data; self.last_scan_time = current_time
RecvSetLast ==
    /\ rx_pc = "last"
    /\ last_scanned' = Head(rx_rest)
    /\ last_scan_time' = TimeAfterBranch(rx_branch, rx_time, last_scan_time)
    /\ rx_rest' = Tail(rx_rest)
    /\ rx_branch' = "None"
    /\ rx_pc' = "loop"
    /\ UNCHANGED <<valid_barcodes, scanned_barcodes, scan_status, file_uploaded,
                   started, clock, load_notice, status_panel, history,
                   rx_time, ui_vars>>
    /\ UNCHANGED fn_vars

\* the frame has no barcode left: return
RecvReturn ==
    /\ rx_pc = "loop"
    /\ rx_rest = <<>>
    /\ rx_pc' = "idle"
    /\ rx_time' = 0
    /\ UNCHANGED <<session, started, last_scan_time, clock, load_notice, status_panel,
                   history, rx_rest, rx_branch, ui_vars>>
    /\ UNCHANGED fn_vars

(***************************************************************************)
(* main on the script thread, statement by statement                       *)
(***************************************************************************)
\* a run starts; the sidebar's upload block
MainUpload(choice, clicked) ==
    /\ ui_pc = "idle"
    /\ valid_barcodes' = AllowListAfterUpload(choice, valid_barcodes)
    /\ file_uploaded' = FlagAfterUpload(choice, file_uploaded)
    /\ load_notice' = NoticeAfterUpload(choice)
    /\ ui_clear' = clicked
    /\ ui_pc' = "controls"
    /\ UNCHANGED <<scanned_barcodes, last_scanned, scan_status, started,
                   last_scan_time, clock, status_panel, history, rx_vars>>
    /\ UNCHANGED fn_vars

\* if st.button("Clear Scan History"): scanned_barcodes = []
MainClear ==
    /\ ui_pc = "controls"
    /\ IF ui_clear
       THEN /\ scanned_barcodes' = HistoryAfterClear(TRUE, scanned_barcodes)
            /\ ui_pc' = "clear_status"
       ELSE /\ UNCHANGED scanned_barcodes
            /\ ui_pc' = "camera"
    /\ ui_clear' = FALSE
    /\ UNCHANGED <<valid_barcodes, last_scanned, scan_status, file_uploaded, started,
                   last_scan_time, clock, load_notice, status_panel, history,
                   rx_vars>>
    /\ UNCHANGED fn_vars

\* scan_status = None
MainClearStatus ==
    /\ ui_pc = "clear_status"
    /\ scan_status' = StatusAfterClear(TRUE, scan_status)
    /\ status_of' = None
    /\ status_shown' = FALSE
    /\ ui_pc' = "clear_last"
    /\ UNCHANGED <<valid_barcodes, scanned_barcodes, last_scanned, file_uploaded,
                   started, last_scan_time, clock, load_notice, status_panel,
                   class_log, cleared, revalidated, rx_vars, ui_clear>>
    /\ UNCHANGED fn_vars

\* last_scanned = None
MainClearLast ==
    /\ ui_pc = "clear_last"
    /\ last_scanned' = LastAfterClear(TRUE, last_scanned)
    /\ ui_pc' = "camera"
    /\ UNCHANGED <<valid_barcodes, scanned_barcodes, scan_status, file_uploaded,
                   started, last_scan_time, clock, load_notice, status_panel,
                   history, rx_vars, ui_clear>>
    /\ UNCHANGED fn_vars

\* the camera column, and the empty status placeholder
MainCamera ==
    /\ ui_pc = "camera"
    /\ started' = (started \/ StreamerStarts(file_uploaded))
    /\ status_panel' = NoPanel
    /\ ui_pc' = "if_success"
    /\ UNCHANGED <<session, last_scan_time, clock, load_notice, history,
                   rx_vars, ui_clear>>
    /\ UNCHANGED fn_vars

\* if / elif scan_status == status: the message of that branch is displayed
MainIf(status, at, else_pc) ==
    /\ ui_pc = at
    /\ IF scan_status = status
       THEN /\ status_panel' = [status |-> status, code |-> None, of |-> status_of]
            /\ status_shown' = TRUE
            /\ ui_pc' = "code"
       ELSE /\ UNCHANGED <<status_panel, status_shown>>
            /\ ui_pc' = else_pc
    /\ UNCHANGED <<session, started, last_scan_time, clock, load_notice,
                   status_of, class_log, cleared, revalidated, rx_vars, ui_clear>>
    /\ UNCHANGED fn_vars

\* st.code(st.session_state.last_scanned)
MainCode ==
    /\ ui_pc = "code"
    /\ status_panel' = [status_panel EXCEPT !.code = last_scanned]
    /\ ui_pc' = "reset"
    /\ UNCHANGED <<session, started, last_scan_time, clock, load_notice,
                   history, rx_vars, ui_clear>>
    /\ UNCHANGED fn_vars

\* scan_status = None, after showing
MainReset ==
    /\ ui_pc = "reset"
    /\ scan_status' = StatusAfterPanel(status_panel.status)
    /\ status_of' = IF scan_status' = "None" THEN None ELSE status_of
    /\ status_shown' = IF scan_status' = "None" THEN FALSE ELSE status_shown
    /\ ui_pc' = "idle"
    /\ UNCHANGED <<valid_barcodes, scanned_barcodes, last_scanned, file_uploaded,
                   started, last_scan_time, clock, load_notice, status_panel,
                   class_log, cleared, revalidated, rx_vars, ui_clear>>
    /\ UNCHANGED fn_vars

(***************************************************************************)
(* The two threads interleaved                                             *)
(***************************************************************************)
\* a second passes; a call of recv takes less than a second
TickConc ==
    /\ rx_pc = "idle"
    /\ clock < scan_cooldown + 1 + MaxConcTicks
    /\ clock' = clock + 1
    /\ UNCHANGED <<session, started, last_scan_time, load_notice, status_panel,
                   history, rx_vars, ui_vars>>
    /\ UNCHANGED fn_vars

NextConc ==
    \/ TickConc
    \/ \E detected \in ConcFrames : RecvEnter(detected)
    \/ RecvIf
    \/ RecvAppend
    \/ RecvElif
    \/ RecvSetStatus
    \/ RecvSetLast
    \/ RecvReturn
    \/ \E choice \in ConcUploadChoices, clicked \in BOOLEAN : MainUpload(choice, clicked)
    \/ MainClear
    \/ MainClearStatus
    \/ MainClearLast
    \/ MainCamera
    \/ MainIf("success", "if_success", "if_invalid")
    \/ MainIf("invalid", "if_invalid", "if_duplicate")
    \/ MainIf("duplicate", "if_duplicate", "idle")
    \/ MainCode
    \/ MainReset

SpecConc == Init /\ [][NextConc]_vars

(***************************************************************************)
(* The functions of the page, each called once on an argument of its own   *)
(***************************************************************************)
InitFn ==
    /\ valid_barcodes = {}
    /\ scanned_barcodes = <<>>
    /\ last_scanned = None
    /\ scan_status = "None"
    /\ file_uploaded = FALSE
    /\ started = FALSE
    /\ last_scan_time = 0
    /\ clock = scan_cooldown + 1
    /\ load_notice = "none"
    /\ status_panel = NoPanel
    /\ status_of = None
    /\ status_shown = FALSE
    /\ class_log = <<>>
    /\ cleared = {}
    /\ revalidated = {}
    /\ rx_pc = "idle"
    /\ rx_rest = <<>>
    /\ rx_time = 0
    /\ rx_branch = "None"
    /\ ui_pc = "idle"
    /\ ui_clear = FALSE
    /\ fn_out = <<>>
    /\ \/ fn = "load" /\ fn_in \in LoadFiles
       \/ fn = "export" /\ fn_in \in ExportHistories
       \/ fn = "statistics" /\ fn_in \in StatisticsCounts

\* load_barcodes_from_file(uploaded_file) returns
CallLoad ==
    /\ fn = "load"
    /\ fn' = "loaded"
    /\ fn_out' = load_barcodes_from_file(fn_in)
    /\ UNCHANGED <<session, started, last_scan_time, clock, load_notice, status_panel,
                   history, rx_vars, ui_vars, fn_in>>

\* the Export Scanned Barcodes button builds the CSV
CallExport ==
    /\ fn = "export"
    /\ fn' = "exported"
    /\ fn_out' = ExportCsv(fn_in)
    /\ UNCHANGED <<session, started, last_scan_time, clock, load_notice, status_panel,
                   history, rx_vars, ui_vars, fn_in>>

\* the statistics column and the history summary compute their percentages
CallStatistics ==
    /\ fn = "statistics"
    /\ fn' = "computed"
    /\ fn_out' = [progress   |-> ProgressMetric(fn_in.total_scanned, fn_in.total_valid),
                  completion |-> Completion(fn_in.total_scanned, fn_in.total_valid),
                  remaining  |-> Remaining(fn_in.total_scanned, fn_in.total_valid)]
    /\ UNCHANGED <<session, started, last_scan_time, clock, load_notice, status_panel,
                   history, rx_vars, ui_vars, fn_in>>

NextFn ==
    \/ CallLoad
    \/ CallExport
    \/ CallStatistics

SpecFn == InitFn /\ [][NextFn]_vars

(***************************************************************************)
(* Properties                                                              *)
(***************************************************************************)
\* the number of records of a barcode in a history
Count(barcode, scanned) ==
    Cardinality({i \in 1..Len(scanned) : scanned[i].barcode = barcode})

\* the barcode at place i of a frame does not occur earlier in the frame
FirstIn(detected, i) == \A j \in 1..(i - 1) : detected[j] # detected[i]

\* a call of recv on `detected` that passes the cooldown gate
Processes(detected) ==
    /\ detected # <<>>
    /\ clock - last_scan_time > scan_cooldown
    /\ Recv(detected)

\* C1: a call of recv that processes a frame leaves exactly one record for
\* each allow-listed barcode of the frame: it appends one when the barcode
\* has none and appends nothing when it has one; the status it leaves is that
\* of the last barcode, 'success' when that barcode is classified for the
\* first time and 'duplicate' when it is classified again.
C1_FirstValidThenDuplicate ==
    [][\A detected \in Frames : Processes(detected) =>
        \A i \in 1..Len(detected) : detected[i] \in valid_barcodes =>
            LET barcode == detected[i]
                before == Count(barcode, scanned_barcodes)
                first == before = 0 /\ FirstIn(detected, i)
            IN  /\ Count(barcode, scanned_barcodes') = (IF before = 0 THEN 1 ELSE before)
                /\ Len(scanned_barcodes') >= Len(scanned_barcodes)
                /\ i = Len(detected) =>
                     /\ scan_status' = (IF first THEN "success" ELSE "duplicate")
                     /\ last_scanned' = barcode]_vars

\* an allow-listed barcode with a record has been classified again
C1_Witness ==
    /\ scan_status = "duplicate"
    /\ last_scanned \in valid_barcodes
    /\ Count(last_scanned, scanned_barcodes) = 1

\* C2: a barcode outside the allow-list is classified 'invalid' whatever the
\* history holds, and its classification appends nothing.
C2_InvalidWhateverHistory ==
    [][\A detected \in Frames : Processes(detected) =>
        /\ \A i \in 1..Len(detected) : detected[i] \notin valid_barcodes =>
              Count(detected[i], scanned_barcodes') = Count(detected[i], scanned_barcodes)
        /\ detected[Len(detected)] \notin valid_barcodes =>
              /\ scan_status' = "invalid"
              /\ last_scanned' = detected[Len(detected)]
        /\ (\A i \in 1..Len(detected) : detected[i] \notin valid_barcodes) =>
              scanned_barcodes' = scanned_barcodes]_vars

\* a barcode that has a record but left the allow-list was classified invalid
C2_Witness ==
    /\ scan_status = "invalid"
    /\ last_scanned \notin valid_barcodes
    /\ last_scanned \in ScannedIds(scanned_barcodes)

OneRecordEach ==
    /\ \A i, j \in 1..Len(scanned_barcodes) :
          scanned_barcodes[i].barcode = scanned_barcodes[j].barcode => i = j
    /\ \A i \in 1..Len(scanned_barcodes) : scanned_barcodes[i].status = "Valid"

AppendsOnlyNewValid ==
    \A k \in (Len(scanned_barcodes) + 1)..Len(scanned_barcodes') :
        /\ scanned_barcodes'[k].barcode \in valid_barcodes
        /\ scanned_barcodes'[k].barcode \notin ScannedIds(scanned_barcodes)

\* C3: the history never holds two records of one barcode, every record has
\* status 'Valid', and a step appends a record only for a barcode that is in
\* the allow-list and has no record.
C3_OneRecordPerBarcode == [](OneRecordEach) /\ [][AppendsOnlyNewValid]_vars

\* two records, one of a barcode recorded again after a clear, one of a
\* barcode that an upload took out of the allow-list
C3_Witness ==
    /\ Len(scanned_barcodes) = 2
    /\ revalidated # {}
    /\ \E i \in 1..2 : scanned_barcodes[i].barcode \notin valid_barcodes

\* C5: the first classification of an allow-listed barcode after Clear Scan
\* History removed its record appends a new record, and the status it leaves
\* is 'success', not 'duplicate'.
C5_ValidAgainAfterClear ==
    [][\A detected \in Frames : Processes(detected) =>
        \A i \in 1..Len(detected) :
            (/\ detected[i] \in cleared
             /\ detected[i] \in valid_barcodes
             /\ FirstIn(detected, i)) =>
                /\ Count(detected[i], scanned_barcodes) = 0
                /\ Count(detected[i], scanned_barcodes') = 1
                /\ i = Len(detected) =>
                     /\ scan_status' = "success"
                     /\ last_scanned' = detected[i]]_vars

\* a barcode was recorded again after the clear and is the last one scanned
C5_Witness ==
    /\ scan_status = "success"
    /\ last_scanned \in revalidated
    /\ last_scanned \in ScannedIds(scanned_barcodes)

\* an upload that fails: unsupported extension, unreadable content, or no
\* data row
UploadFails(f) ==
    \/ f.ext \notin {"csv", "xlsx", "xls"}
    \/ ~ f.readable
    \/ Len(f.rows) <= 1

\* C6: a run of main whose upload fails reports the error and leaves
\* valid_barcodes and file_uploaded as they were.
C6_FailedUploadKeepsAllowList ==
    [][\A choice \in UploadChoices, clicked \in BOOLEAN :
        (choice # <<>> /\ UploadFails(choice[1]) /\ Main(choice, clicked)) =>
            /\ load_notice' = "error"
            /\ valid_barcodes' = valid_barcodes
            /\ file_uploaded' = file_uploaded]_vars

\* an upload failed while an allow-list was loaded, and the list is still there
C6_Witness ==
    /\ load_notice = "error"
    /\ file_uploaded
    /\ valid_barcodes # {}

\* C7: while file_uploaded is False there is no processor, no classification
\* has run, the history is empty and scan_status and last_scanned are None.
C7_NoPipelineBeforeUpload ==
    ~ file_uploaded =>
        /\ ~ started
        /\ class_log = <<>>
        /\ scanned_barcodes = <<>>
        /\ scan_status = "None"
        /\ last_scanned = None

\* main has run with an upload that failed, and nothing was loaded before
C7_Witness == ~ file_uploaded /\ load_notice = "error"

\* C8 as stated: no call classifies more than one barcode, and calls that
\* classify are more than scan_cooldown apart.
C8_AnyTwoClassificationsApart ==
    /\ \A i \in 1..Len(class_log) : class_log[i].n <= 1
    /\ Len(class_log) = 2 => class_log[2].time - class_log[1].time > scan_cooldown

\* C8: two calls of recv that each classify have current_time values more
\* than scan_cooldown apart (the barcodes of one frame are classified in the
\* same call, at the same current_time).
C8_ClassifyingCallsApart ==
    Len(class_log) = 2 => class_log[2].time - class_log[1].time > scan_cooldown

\* two calls have classified
C8_Witness == Len(class_log) = 2 /\ class_log[2].n = 2

(***************************************************************************)
(* Properties of the interleaved threads                                   *)
(***************************************************************************)
\* the statements of SpecConc that write or read the status slot
WritesStatus == rx_pc = "status" /\ rx_pc' = "last"
ClearsStatus == ui_pc = "clear_status" /\ ui_pc' = "clear_last"
ResetsStatus == ui_pc = "reset" /\ ui_pc' = "idle"
DisplaysStatus == ui_pc \in {"if_success", "if_invalid", "if_duplicate"} /\ ui_pc' = "code"

\* C4: a record is appended only while its barcode is in valid_barcodes.
C4_RecordedWhileAllowed ==
    [][\A k \in (Len(scanned_barcodes) + 1)..Len(scanned_barcodes') :
          scanned_barcodes'[k].barcode \in valid_barcodes]_vars

\* C9 as stated: a status is displayed only if it has not been displayed, and
\* it is overwritten or reset only after it has been displayed.
C9_ConsumedExactlyOnce ==
    [][/\ DisplaysStatus => ~ status_shown
       /\ WritesStatus => (scan_status = "None" \/ status_shown)
       /\ (ClearsStatus \/ ResetsStatus) => (scan_status = "None" \/ status_shown)]_vars

\* C9: a run of main displays a status only if no run has displayed it, and
\* the run that displays a status ends its status panel with scan_status
\* None.
C9_DisplayedAtMostOnce ==
    [][/\ DisplaysStatus => ~ status_shown
       /\ ResetsStatus => scan_status' = "None"]_vars

\* a run displayed a status with its barcode and reset the slot
C9_Witness ==
    /\ ui_pc = "idle"
    /\ status_panel.status = "duplicate"
    /\ status_panel.code = status_panel.of
    /\ scan_status = "None"

\* C10: the barcode the status panel shows with a status is the barcode whose
\* classification wrote that status.
C10_PanelPairsStatusWithBarcode ==
    (status_panel.status # "None" /\ ui_pc # "code") =>
        status_panel.code = status_panel.of

(***************************************************************************)
(* The loader by itself (SpecFn)                                           *)
(***************************************************************************)
\* the file is of a supported type and pandas can read it
Supported(f) == f.ext \in {"csv", "xlsx", "xls"} /\ f.readable

\* t is the cell without its leading and trailing blanks
IsTrimOf(t, cell, i, j) ==
    /\ t = SubSeq(cell, i, j)
    /\ \A k \in 1..(i - 1) : IsSpace(cell[k])
    /\ \A k \in (j + 1)..Len(cell) : IsSpace(cell[k])
    /\ i <= j => ~ IsSpace(cell[i]) /\ ~ IsSpace(cell[j])

Trims(cell) ==
    {SubSeq(cell, i, j) : <<i, j>> \in
        {ij \in (1..(Len(cell) + 1)) \X (0..Len(cell)) :
            /\ ij[1] <= ij[2] + 1
            /\ IsTrimOf(SubSeq(cell, ij[1], ij[2]), cell, ij[1], ij[2])}}

\* the trimmed, non-empty values of the rows from the one numbered `from`
CellValues(rows, from) == UNION {Trims(rows[k]) : k \in from..Len(rows)} \ {<<>>}

\* C11 as the specification states it: the result is exactly the set of the
\* trimmed, non-empty values of all the rows of the first column.
C11_AllRowsLoaded ==
    fn = "loaded" /\ Supported(fn_in) => fn_out.barcodes = CellValues(fn_in.rows, 1)

\* C11: for a file whose top row holds text, load_barcodes_from_file returns
\* exactly the set of the whitespace-trimmed values of the rows below the
\* top row, empty cells dropped and duplicates collapsed, never the empty
\* string; for a file it cannot read it returns the empty set.
C11_DataRowsLoaded ==
    fn = "loaded" =>
        /\ <<>> \notin fn_out.barcodes
        /\ fn_out.barcodes =
               IF Supported(fn_in) THEN CellValues(fn_in.rows, 2) ELSE {}

C11_Witness ==
    /\ fn = "loaded"
    /\ fn_in.rows = <<B, <<" ", "A", " ">>, <<>>, A>>
    /\ fn_out.barcodes = {A}

\* C12 as the specification states it: the value of the first row is a
\* member of the allow-list when it is not empty after trimming.
C12_FirstRowLoaded ==
    fn = "loaded" /\ Supported(fn_in) /\ fn_in.rows # <<>> =>
        \A t \in Trims(fn_in.rows[1]) \ {<<>>} : t \in fn_out.barcodes

\* C12: the top row of the file is taken as the column header and is not
\* loaded: every member of the result is the value of a row below it, and
\* a file of a single row fails as empty.
C12_FirstRowIsHeader ==
    fn = "loaded" /\ fn_in.rows # <<>> =>
        /\ \A t \in fn_out.barcodes :
               \E k \in 2..Len(fn_in.rows) : t \in Trims(fn_in.rows[k])
        /\ Len(fn_in.rows) = 1 => fn_out.error /\ fn_out.barcodes = {}

C12_Witness ==
    /\ fn = "loaded"
    /\ fn_in.rows = <<A, B>>
    /\ fn_out = [barcodes |-> {B}, error |-> FALSE]

\* C16 as the specification states it: no two members of the loaded
\* allow-list differ only in letter case.
C16_CaseNormalized ==
    fn = "loaded" =>
        \A x, y \in fn_out.barcodes : Upper(x) = Upper(y) => x = y

\* C16: the load normalizes whitespace and keeps letter case: no member has
\* a leading or trailing blank, and every non-blank cell below the top row
\* is a member in its own case, so cells that differ only in case give
\* distinct members.
C16_WhitespaceNormalizedOnly ==
    fn = "loaded" /\ ~ fn_out.error =>
        /\ \A x \in fn_out.barcodes :
               x # <<>> /\ ~ IsSpace(x[1]) /\ ~ IsSpace(x[Len(x)])
        /\ \A k \in 2..Len(fn_in.rows) :
               HoldsText(fn_in.rows[k]) =>
                   \E x \in fn_out.barcodes : x \in Trims(fn_in.rows[k])

C16_Witness ==
    /\ fn = "loaded"
    /\ fn_in.rows = <<B, A, <<"a">>, <<" ", "A", " ">>>>
    /\ fn_out.barcodes = {A, <<"a">>}

(***************************************************************************)
(* Export and statistics by themselves (SpecFn)                            *)
(***************************************************************************)
\* the place of a column in the header line of a CSV
ColumnOf(csv, name) == CHOOSE k \in 1..Len(csv[1]) : csv[1][k] = name

\* C13: the export of a history of n records is a header line followed by
\* exactly n lines, one per record in history order, with the columns in the
\* order timestamp, identifier, status.
C13_ExportTimestampFirst ==
    fn = "exported" =>
        /\ Len(fn_out) = Len(fn_in) + 1
        /\ fn_out[1] = <<"timestamp", "barcode", "status">>
        /\ \A i \in 1..Len(fn_in) :
               \A name \in {"timestamp", "barcode", "status"} :
                   fn_out[i + 1][ColumnOf(fn_out, name)] = fn_in[i][name]

\* C14: the progress metric is len(scanned_barcodes) / len(valid_barcodes)
\* * 100 when the allow-list is not empty and 0 when it is empty; neither
\* it nor the completion percentage divides by zero.
C14_ProgressGuarded ==
    fn = "computed" =>
        LET s == fn_in.total_scanned
            v == fn_in.total_valid
            p == fn_out.progress
        IN  /\ ~ p.fault
            /\ ~ fn_out.completion.fault
            /\ v # 0 => p.num * v = 100 * s * p.den
            /\ v = 0 => p.num = 0
            /\ fn_out.completion = p

C14_Witness ==
    /\ fn = "computed"
    /\ fn_in = [total_scanned |-> 0, total_valid |-> 0]
    /\ fn_out.progress = Zero

(***************************************************************************)
(* The history, the gate and the frame loop (Spec)                         *)
(***************************************************************************)
\* new is old with records appended at its end, or old itself
IsExtension(old, new) ==
    Len(new) >= Len(old) /\ SubSeq(new, 1, Len(old)) = old

\* C15: every step leaves scanned_barcodes unchanged, appends records at
\* its end keeping every existing record as it is, or, only when the Clear
\* Scan History button was clicked, replaces it with the empty list.
C15_GrowsOrClearedWholesale ==
    [][\/ IsExtension(scanned_barcodes, scanned_barcodes')
       \/ /\ scanned_barcodes' = <<>>
          /\ \E choice \in UploadChoices : Main(choice, TRUE)]_vars

C15_Witness ==
    /\ Len(scanned_barcodes) = 2
    /\ revalidated # {}

\* C18: a frame that recv receives no more than scan_cooldown after the
\* last classification changes none of scanned_barcodes, scan_status,
\* last_scanned and last_scan_time, whatever it holds; nor does a frame
\* without a barcode.
C18_SuppressedFrameChangesNothing ==
    [][\/ UNCHANGED <<scanned_barcodes, scan_status, last_scanned, last_scan_time>>
       \/ \A detected \in Frames :
             ~ /\ clock - last_scan_time <= scan_cooldown \/ detected = <<>>
               /\ Recv(detected)]_vars

C18_Witness ==
    /\ started
    /\ scanned_barcodes # <<>>
    /\ clock - last_scan_time <= scan_cooldown
    /\ \E b \in valid_barcodes : b \notin ScannedIds(scanned_barcodes) /\ b # last_scanned

\* the barcodes of a frame that get a record, in detection order
RECURSIVE NewIn(_, _, _)
NewIn(detected, valid, seen) ==
    IF detected = <<>> THEN <<>>
    ELSE IF Head(detected) \in valid /\ Head(detected) \notin seen
    THEN <<Head(detected)>> \o NewIn(Tail(detected), valid, seen \cup {Head(detected)})
    ELSE NewIn(Tail(detected), valid, seen)

\* C19: a call of recv on a frame that passes the gate classifies every
\* barcode of the frame in detection order: the records appended are those
\* of the new allow-listed barcodes of the frame, in that order, and
\* scan_status and last_scanned are those of the last barcode of the frame.
C19_WholeFrameClassified ==
    [][\A detected \in Frames :
         Processes(detected) =>
            LET n    == Len(scanned_barcodes)
                last == detected[Len(detected)]
            IN  /\ IsExtension(scanned_barcodes, scanned_barcodes')
                /\ [k \in 1..(Len(scanned_barcodes') - n) |-> scanned_barcodes'[n + k].barcode]
                      = NewIn(detected, valid_barcodes, ScannedIds(scanned_barcodes))
                /\ last_scanned' = last
                /\ scan_status' =
                      IF last \notin valid_barcodes THEN "invalid"
                      ELSE IF \/ last \in ScannedIds(scanned_barcodes)
                              \/ \E i \in 1..(Len(detected) - 1) : detected[i] = last
                      THEN "duplicate"
                      ELSE "success"]_vars

C19_Witness ==
    /\ Len(scanned_barcodes) = 2
    /\ scanned_barcodes[1].timestamp = scanned_barcodes[2].timestamp
    /\ class_log # <<>>
    /\ class_log[Len(class_log)].n = 2
    /\ scan_status = "success"
    /\ last_scanned = scanned_barcodes[2].barcode

\* C20: in every reachable state the records are at most as many as the
\* allow-list has members, so the progress metric is at most 100 and the
\* Remaining count is not negative.
C20_RecordsWithinAllowList ==
    LET total_scanned == Len(scanned_barcodes)
        total_valid   == Cardinality(valid_barcodes)
        progress      == ProgressMetric(total_scanned, total_valid)
    IN  /\ total_scanned <= total_valid
        /\ progress.num <= 100 * progress.den
        /\ Remaining(total_scanned, total_valid) >= 0

(***************************************************************************)
(* The upload block (SpecConc)                                             *)
(***************************************************************************)
\* the set each file loads: the trimmed values below its top row
LoadsSetOf == [f \in Files |-> IF Supported(f) THEN CellValues(f.rows, 2) ELSE {}]

LoadsSet(f) == LoadsSetOf[f]

\* C17: a successful upload makes valid_barcodes the loaded set, sets
\* file_uploaded, and leaves scanned_barcodes, scan_status and last_scanned
\* as they are, so records of barcodes absent from the new list remain.
C17_UploadReplacesWholesale ==
    [][\A choice \in ConcUploadChoices, clicked \in BOOLEAN :
         /\ ui_pc = "idle"
         /\ ui_pc' = "controls"
         /\ choice # <<>>
         /\ LoadsSet(choice[1]) # {}
         /\ MainUpload(choice, clicked)
         => /\ valid_barcodes' = LoadsSet(choice[1])
            /\ file_uploaded'
            /\ UNCHANGED <<scanned_barcodes, scan_status, last_scanned>>]_vars

C17_Witness ==
    /\ ui_pc = "controls"
    /\ load_notice = "loaded"
    /\ valid_barcodes = {B}
    /\ file_uploaded
    /\ A \in ScannedIds(scanned_barcodes)

(***************************************************************************)
(* The upload flag and the clear button (Spec)                             *)
(***************************************************************************)
\* C21: file_uploaded is True only if valid_barcodes is not empty; a run of
\* main whose file loads the empty set leaves the allow-list as it was;
\* file_uploaded never returns to False and valid_barcodes, once not empty,
\* never becomes empty.
C21_UploadedMeansNonEmpty ==
    /\ [](file_uploaded => valid_barcodes # {})
    /\ [][/\ file_uploaded => file_uploaded'
          /\ valid_barcodes # {} => valid_barcodes' # {}
          /\ \/ UNCHANGED valid_barcodes
             \/ \A choice \in UploadChoices, clicked \in BOOLEAN :
                   ~ /\ choice # <<>>
                     /\ LoadsSet(choice[1]) = {}
                     /\ Main(choice, clicked)]_vars

C21_Witness ==
    /\ file_uploaded
    /\ valid_barcodes = {B}
    /\ load_notice = "error"
    /\ scanned_barcodes # <<>>

\* C22: a run of main with the Clear Scan History button clicked, no recv
\* running within it, ends with scanned_barcodes empty and scan_status and
\* last_scanned None; the clear leaves valid_barcodes and file_uploaded as
\* they were (they change in such a run only by what its upload loads).
C22_ClearResetsHistoryOnly ==
    [][\A choice \in UploadChoices :
         \/ /\ scanned_barcodes' = <<>>
            /\ scan_status' = "None"
            /\ last_scanned' = None
            /\ choice = <<>> => UNCHANGED <<valid_barcodes, file_uploaded>>
            /\ choice # <<>> =>
                  \/ UNCHANGED <<valid_barcodes, file_uploaded>>
                  \/ valid_barcodes' = LoadsSet(choice[1]) /\ file_uploaded'
         \/ ~ Main(choice, TRUE)]_vars

C22_Witness ==
    /\ scanned_barcodes = <<>>
    /\ cleared # {}
    /\ scan_status = "None"
    /\ last_scanned = None
    /\ file_uploaded
    /\ valid_barcodes # {}

====
